---- MODULE Spec2Model ----
(***************************************************************************)
(* Model of the video upload service: the record store (videos, encoding  *)
(* jobs), the upload-completion handler, the job dispatcher with its       *)
(* round-robin encoder selection and retry policy, and the encoder        *)
(* webhook.  Every await of the TypeScript source is one step, so that    *)
(* handlers interleave as they do on the Node.js event loop.               *)
(***************************************************************************)
EXTENDS Integers, Sequences, FiniteSets, TLC

\* ------------------------------------------------------------------ bounds
MaxVideos == 1        \* uploads ever created
MaxPolls == 2         \* poll cycles ever started
MaxRetryPolls == 5    \* poll cycles ever started in the backlog scenarios
MaxCycles == 1        \* poll cycles in flight at the same time
MaxOverlap == 2       \* poll cycles in flight at the same time, overlap scenario
MaxWebhooks == 2      \* webhook calls ever received
MaxStoreFaults == 1   \* store calls that fail with an I/O error
MaxEncoders == 1      \* entries of the ENCODERS environment variable
MaxBacklog == 6       \* jobs waiting when the dispatcher starts (rotation scenario)
MaxRetryJobs == 2     \* jobs waiting when the dispatcher starts (retry scenarios)
MaxRotation == 3      \* entries of ENCODERS in the rotation scenario
MaxThumbnails == 1    \* thumbnail requests ever received
MaxLifecyclePolls == 4  \* poll cycles ever started when the store answers every call
MaxJobDocs == 3       \* documents of the job collection (job store scenario)

\* ------------------------------------------------------- program constants
BatchSize == 5        \* getPendingJobs(5)
MaxAttempts == 3      \* job.attemptCount >= 3

\* null / undefined of a nullable field (strings), and of a Date (numbers)
Null == "null"
NoDate == 0

PermlinkNames ==
    <<"ab12cd34", "yn77aj9g", "k3x9q0aa", "zz11yy22", "m4m4m4m4", "q7q7q7q7", "r8r8r8r8", "s9s9s9s9">>
Owners == {"alice", "bob"}
UploadOwners == {"alice"}
FrontendApps == {"snapie"}
ShortFlags == {FALSE}
EncoderNames == <<"snapie", "eddie", "backup", "spare">>
InputCids == {"Qm123"}
ManifestCids == {"Qm456"}

\* config.webhookApiKey, and the X-API-Key header values a caller may send
webhookApiKey == "whsecret"
ApiKeyHeaders == {webhookApiKey, "wrong", Null}

\* error messages thrown on the dispatch path
ErrVideoNotFound == "Video not found"
ErrNoInputCid == "Video has no input_cid"
ErrNoEncoders == "No enabled encoders available"
ErrEncoderApi == "Encoder API error"
ErrFetch == "fetch failed"
ErrJson == "invalid json response body"
ErrDb == "store error"
DefaultWebhookError == "Encoding failed"

VARIABLES
    videos,               \* collection embed-video: permlink -> VideoMetadata
    jobs,                 \* collection embed-jobs: _id (insertion order) -> EncodingJob
    clock,                \* new Date()
    encoders,             \* config.encoders
    currentEncoderIndex,  \* JobDispatcher.currentEncoderIndex
    isRunning,            \* JobDispatcher.isRunning
    intervalId,           \* JobDispatcher.intervalId is set
    cycles,               \* activations of processJobs
    uploads,              \* tus uploads and their onUploadFinish activation
    wh,                   \* activation of the POST /webhook handler
    faults,               \* store calls that have failed
    polls,                \* poll cycles started
    hooks,                \* webhook calls received
    thumb,                \* activation of the POST /video/:permlink/thumbnail handler
    dispatched,           \* POST /encode requests sent: <<owner, permlink>> -> encoder of the last one
    timers,               \* setInterval timers that have not been cleared
    shutdown,             \* the process: running, closing (signal handler awaits close), exited
    accepted              \* <<owner, permlink>> of the requests an encoder answered with 2xx

vars == <<videos, jobs, clock, encoders, currentEncoderIndex, isRunning, intervalId,
          cycles, uploads, wh, faults, polls, hooks, thumb, dispatched, timers, shutdown,
          accepted>>

\* --------------------------------------------------------------- the store
\* $set: only the named fields change
Patch(doc, set) == [f \in DOMAIN doc |-> IF f \in DOMAIN set THEN set[f] ELSE doc[f]]

\* mutant of NewVideo: the entry is created already processing
NewVideoProcessing(owner, frontend_app, short) ==
    [owner |-> owner, frontend_app |-> frontend_app, short |-> short, status |-> "processing",
     input_cid |-> Null, manifest_cid |-> Null, thumbnail_url |-> Null, encodingProgress |-> 0]

\* the document onUploadCreate inserts
NewVideo(owner, frontend_app, short) ==
    [owner |-> owner, frontend_app |-> frontend_app, short |-> short, status |-> "uploading",
     input_cid |-> Null, manifest_cid |-> Null, thumbnail_url |-> Null, encodingProgress |-> 0]

\* mutant of NewJob: the job starts with one attempt counted
NewJobCounted(owner, permlink, now) ==
    [owner |-> owner, permlink |-> permlink, status |-> "pending", assignedWorker |-> Null,
     encoderJobId |-> Null, assignedAt |-> NoDate, attemptCount |-> 1, lastError |-> Null,
     webhookReceivedAt |-> NoDate, createdAt |-> now]

\* the document onUploadFinish inserts
NewJob(owner, permlink, now) ==
    [owner |-> owner, permlink |-> permlink, status |-> "pending", assignedWorker |-> Null,
     encoderJobId |-> Null, assignedAt |-> NoDate, attemptCount |-> 0, lastError |-> Null,
     webhookReceivedAt |-> NoDate, createdAt |-> now]

\* mutant of UpdateVideoStatus: the $set leaves status out
UpdateVideoStatusDataOnly(vs, permlink, status, additionalData) ==
    IF permlink \in DOMAIN vs
    THEN [vs EXCEPT ![permlink] = Patch(@, additionalData)]
    ELSE vs

\* Database.updateVideoStatus: updateOne({permlink}, {$set: {status, ...additionalData}})
UpdateVideoStatus(vs, permlink, status, additionalData) ==
    IF permlink \in DOMAIN vs
    THEN [vs EXCEPT ![permlink] = Patch(@, additionalData @@ [status |-> status])]
    ELSE vs

\* the documents a filter {owner, permlink} matches, and the one updateOne and findOne
\* take: the first in insertion order
JobIds(js, owner, permlink) ==
    {id \in DOMAIN js : js[id].owner = owner /\ js[id].permlink = permlink}

FindJob(js, owner, permlink) ==
    CHOOSE id \in JobIds(js, owner, permlink) : \A o \in JobIds(js, owner, permlink) : id <= o

\* Database.updateJobStatus: updateOne({owner, permlink}, {$set: {status, ...additionalData}})
UpdateJobStatus(js, owner, permlink, status, additionalData) ==
    IF JobIds(js, owner, permlink) # {}
    THEN [js EXCEPT ![FindJob(js, owner, permlink)] =
             Patch(@, additionalData @@ [status |-> status])]
    ELSE js

\* mutant of IncrementJobAttempt: $set: {attemptCount: 1} in place of $inc
IncrementJobAttemptSet(js, owner, permlink) ==
    IF JobIds(js, owner, permlink) # {}
    THEN [js EXCEPT ![FindJob(js, owner, permlink)].attemptCount = 1]
    ELSE js

\* Database.incrementJobAttempt: updateOne({owner, permlink}, {$inc: {attemptCount: 1}})
IncrementJobAttempt(js, owner, permlink) ==
    IF JobIds(js, owner, permlink) # {}
    THEN [js EXCEPT ![FindJob(js, owner, permlink)].attemptCount = @ + 1]
    ELSE js

\* mutant of CanInsertJob: the unique index is missing
CanInsertJobNoIndex(js, owner, permlink) == TRUE

\* the unique index on {owner, permlink} rejects an insert when a document has the pair
CanInsertJob(js, owner, permlink) == JobIds(js, owner, permlink) = {}

\* Database.createJob: insertOne(job); the document gets the next _id
CreateJob(js, job) == js @@ ((Cardinality(DOMAIN js) + 1) :> job)

\* Database.getPendingJobs: find({status: 'pending'}).sort({createdAt: 1}).limit(limit)
PendingKeys(js) == {k \in DOMAIN js : js[k].status = "pending"}

RECURSIVE SortByCreatedAt(_, _)
SortByCreatedAt(js, keys) ==
    IF keys = {} THEN <<>>
    ELSE LET first == CHOOSE k \in keys : \A o \in keys : js[k].createdAt <= js[o].createdAt
         IN  <<js[first]>> \o SortByCreatedAt(js, keys \ {first})

Take(s, n) == SubSeq(s, 1, IF Len(s) < n THEN Len(s) ELSE n)

GetPendingJobs(js, limit) == Take(SortByCreatedAt(js, PendingKeys(js)), limit)

\* a store call either returns or throws; at most MaxStoreFaults throw
StoreOutcomes == IF faults < MaxStoreFaults THEN {TRUE, FALSE} ELSE {TRUE}
CountFault(ok) == faults' = IF ok THEN faults ELSE faults + 1

\* ---------------------------------------------------------------- config
\* the ENCODERS values tried: a prefix of EncoderNames, each entry enabled or not
EnvEncoders(max) ==
    {<<>>} \cup
    UNION {{[i \in 1..n |-> [name |-> EncoderNames[i], enabled |-> i \in on]] : on \in SUBSET (1..n)}
           : n \in 1..max}

RECURSIVE FilterEnabled(_)
FilterEnabled(es) ==
    IF es = <<>> THEN <<>>
    ELSE (IF Head(es).enabled THEN <<Head(es)>> ELSE <<>>) \o FilterEnabled(Tail(es))

\* parseEncoders: the enabled entries of ENCODERS, else the legacy single encoder
ParseEncoders(env, legacy) ==
    IF FilterEnabled(env) = <<>> /\ legacy
    THEN <<[name |-> "default", enabled |-> TRUE]>>
    ELSE FilterEnabled(env)

Configs(max) == {ParseEncoders(env, legacy) : env \in EnvEncoders(max), legacy \in BOOLEAN}


\* ------------------------------------------------------------ dispatcher
NoData == [f \in {} |-> Null]

\* the fields of a fetched job that processJobs reads
Snapshot(job) == [owner |-> job.owner, permlink |-> job.permlink, attemptCount |-> job.attemptCount]

MapSnapshot(s) == [i \in 1..Len(s) |-> Snapshot(s[i])]

IdleCycle == [pc |-> "idle", batch |-> <<>>, i |-> 0, enc |-> Null, jobId |-> Null, err |-> Null]

\* the for loop of processJobs: the next job of the batch, or the end of the cycle
NextJob(cy) ==
    IF cy.i < Len(cy.batch)
    THEN [cy EXCEPT !.pc = "getVideo", !.i = @ + 1, !.enc = Null, !.jobId = Null, !.err = Null]
    ELSE IdleCycle

\* the catch block of processJobs is entered with this error
Caught(cy, message) == [cy EXCEPT !.pc = "inc", !.err = message]

\* mutant of EnabledEncoders: the list is not filtered
EnabledEncodersUnfiltered(es) == es

\* this.config.encoders.filter(e => e.enabled)
EnabledEncoders(es) == FilterEnabled(es)

\* mutant of GetNextEncoder: the cursor is advanced before it is read
GetNextEncoderSkipping(es, index) ==
    EnabledEncoders(es)[((index + 1) % Len(EnabledEncoders(es))) + 1]

\* getNextEncoder: enabledEncoders[this.currentEncoderIndex % enabledEncoders.length]
GetNextEncoder(es, index) == EnabledEncoders(es)[(index % Len(EnabledEncoders(es))) + 1]

\* mutants of MaxAttemptsReached: the threshold off by one, either way
MaxAttemptsReachedEarly(job) == job.attemptCount >= MaxAttempts - 1

MaxAttemptsReachedLate(job) == job.attemptCount > MaxAttempts

\* if (job.attemptCount >= 3)
MaxAttemptsReached(job) == job.attemptCount >= MaxAttempts

MaxAttemptsMessage(message) == "Max attempts exceeded: " \o message

\* what dispatchJob throws before it calls the encoder, or Null
DispatchPrecheck(vs, es, permlink) ==
    IF permlink \notin DOMAIN vs THEN ErrVideoNotFound
    ELSE IF vs[permlink].input_cid = Null THEN ErrNoInputCid
    ELSE IF Len(EnabledEncoders(es)) = 0 THEN ErrNoEncoders
    ELSE Null

FreeSlots == {c \in DOMAIN cycles : cycles[c].pc = "idle"}
FreeSlot == CHOOSE c \in FreeSlots : \A d \in FreeSlots : c <= d

\* processJobs() is called and runs up to its first await; at most limit cycles are started
BeginCycle(limit) ==
    /\ polls < limit
    /\ FreeSlots # {}
    /\ cycles' = [cycles EXCEPT ![FreeSlot] = [IdleCycle EXCEPT !.pc = "fetch"]]
    /\ polls' = polls + 1

\* mutant of Start: the cycle is run once and no timer is created
StartWithoutTimer(limit) ==
    /\ ~isRunning
    /\ isRunning' = TRUE
    /\ BeginCycle(limit)
    /\ UNCHANGED <<videos, jobs, clock, encoders, currentEncoderIndex, intervalId, timers,
                   uploads, wh, faults, hooks, thumb, dispatched, shutdown, accepted>>

\* mutant of Start: no check of isRunning
StartUnguarded(limit) ==
    /\ isRunning' = TRUE
    /\ BeginCycle(limit)
    /\ intervalId' = TRUE
    /\ timers' = timers + 1
    /\ UNCHANGED <<videos, jobs, clock, encoders, currentEncoderIndex, uploads, wh, faults,
                   hooks, thumb, dispatched, shutdown, accepted>>

\* JobDispatcher.start
Start(limit) ==
    /\ ~isRunning
    /\ isRunning' = TRUE
    /\ BeginCycle(limit)
    /\ intervalId' = TRUE
    /\ timers' = timers + 1
    /\ UNCHANGED <<videos, jobs, clock, encoders, currentEncoderIndex, uploads, wh, faults,
                   hooks, thumb, dispatched, shutdown, accepted>>

\* the setInterval callback
Tick(limit) ==
    /\ timers > 0
    /\ BeginCycle(limit)
    /\ UNCHANGED <<videos, jobs, clock, encoders, currentEncoderIndex, isRunning, intervalId,
                   timers, uploads, wh, faults, hooks, thumb, dispatched, shutdown, accepted>>

\* JobDispatcher.stop
Stop ==
    /\ intervalId
    /\ timers' = timers - 1
    /\ intervalId' = FALSE
    /\ isRunning' = FALSE
    /\ UNCHANGED <<videos, jobs, clock, encoders, currentEncoderIndex, cycles, uploads, wh,
                   faults, polls, hooks, thumb, dispatched, shutdown, accepted>>

\* fetch(`${encoder.url}/encode`, ...): the request for the job goes out to this encoder
Sent(d, owner, permlink, encoder) ==
    [k \in DOMAIN d \cup {<<owner, permlink>>} |->
        IF k = <<owner, permlink>> THEN encoder ELSE d[k]]

\* await this.database.getPendingJobs(5)
FetchJobs(c, ok) ==
    /\ cycles[c].pc = "fetch"
    /\ CountFault(ok)
    /\ cycles' = [cycles EXCEPT ![c] =
         IF ok /\ GetPendingJobs(jobs, BatchSize) # <<>>
         THEN [@ EXCEPT !.pc = "getVideo", !.i = 1,
                        !.batch = MapSnapshot(GetPendingJobs(jobs, BatchSize))]
         ELSE IdleCycle]
    /\ UNCHANGED <<videos, jobs, clock, encoders, currentEncoderIndex, isRunning, intervalId,
                   timers, uploads, wh, polls, hooks, thumb, dispatched, shutdown, accepted>>

\* mutant of LoadAndSelect: the cursor is advanced before the checks of dispatchJob
LoadAndSelectAdvancingFirst(c, ok) ==
    LET cy == cycles[c]
        job == cy.batch[cy.i]
        thrown == IF ok THEN DispatchPrecheck(videos, encoders, job.permlink) ELSE ErrDb
    IN  /\ cy.pc = "getVideo"
        /\ CountFault(ok)
        /\ IF thrown # Null
           THEN /\ cycles' = [cycles EXCEPT ![c] = Caught(cy, thrown)]
                /\ currentEncoderIndex' = currentEncoderIndex + 1
                /\ UNCHANGED dispatched
           ELSE /\ cycles' = [cycles EXCEPT ![c] =
                     [cy EXCEPT !.pc = "call",
                                !.enc = GetNextEncoder(encoders, currentEncoderIndex).name]]
                /\ currentEncoderIndex' = currentEncoderIndex + 1
                /\ dispatched' = Sent(dispatched, job.owner, job.permlink,
                                      GetNextEncoder(encoders, currentEncoderIndex).name)
        /\ UNCHANGED <<videos, jobs, clock, encoders, isRunning, intervalId, timers, uploads,
                       wh, polls, hooks, thumb, shutdown, accepted>>

\* dispatchJob: await this.database.getVideo(permlink), the checks, getNextEncoder(),
\* up to the await of fetch()
LoadAndSelect(c, ok) ==
    LET cy == cycles[c]
        job == cy.batch[cy.i]
        thrown == IF ok THEN DispatchPrecheck(videos, encoders, job.permlink) ELSE ErrDb
    IN  /\ cy.pc = "getVideo"
        /\ CountFault(ok)
        /\ IF thrown # Null
           THEN /\ cycles' = [cycles EXCEPT ![c] = Caught(cy, thrown)]
                /\ UNCHANGED <<currentEncoderIndex, dispatched>>
           ELSE /\ cycles' = [cycles EXCEPT ![c] =
                     [cy EXCEPT !.pc = "call",
                                !.enc = GetNextEncoder(encoders, currentEncoderIndex).name]]
                /\ currentEncoderIndex' = currentEncoderIndex + 1
                /\ dispatched' = Sent(dispatched, job.owner, job.permlink,
                                      GetNextEncoder(encoders, currentEncoderIndex).name)
        /\ UNCHANGED <<videos, jobs, clock, encoders, isRunning, intervalId, timers, uploads,
                       wh, polls, hooks, thumb, shutdown, accepted>>

\* what the encoder answers to POST /encode
EncoderOutcomes == {"ok", "noJobId", "badJson", "non2xx", "network"}

EncoderError(outcome) ==
    IF outcome = "non2xx" THEN ErrEncoderApi
    ELSE IF outcome = "network" THEN ErrFetch
    ELSE IF outcome = "badJson" THEN ErrJson
    ELSE Null

\* await fetch(...), response.ok, await response.json()
EncoderResponds(c, outcome) ==
    LET cy == cycles[c]
    IN  /\ cy.pc = "call"
        /\ cycles' = [cycles EXCEPT ![c] =
             IF EncoderError(outcome) # Null
             THEN Caught(cy, EncoderError(outcome))
             ELSE [cy EXCEPT !.pc = "setEncoding",
                             !.jobId = IF outcome = "ok" THEN "enc-job-1" ELSE Null]]
        /\ accepted' = IF outcome \in {"non2xx", "network"} THEN accepted
                       ELSE accepted \cup {<<cy.batch[cy.i].owner, cy.batch[cy.i].permlink>>}
        /\ UNCHANGED <<videos, jobs, clock, encoders, currentEncoderIndex, isRunning,
                       intervalId, timers, uploads, wh, faults, polls, hooks, thumb,
                       dispatched, shutdown>>

\* await this.database.updateJobStatus(owner, permlink, 'encoding', {...})
SetEncoding(c, ok) ==
    LET cy == cycles[c]
        job == cy.batch[cy.i]
    IN  /\ cy.pc = "setEncoding"
        /\ CountFault(ok)
        /\ jobs' = IF ok
                   THEN UpdateJobStatus(jobs, job.owner, job.permlink, "encoding",
                            [encoderJobId |-> cy.jobId, assignedWorker |-> cy.enc,
                             assignedAt |-> clock])
                   ELSE jobs
        /\ cycles' = [cycles EXCEPT ![c] = IF ok THEN NextJob(cy) ELSE Caught(cy, ErrDb)]
        /\ UNCHANGED <<videos, clock, encoders, currentEncoderIndex, isRunning, intervalId,
                       timers, uploads, wh, polls, hooks, thumb, dispatched, shutdown,
                       accepted>>

\* catch: await this.database.incrementJobAttempt(job.owner, job.permlink)
IncAttempt(c, ok) ==
    LET cy == cycles[c]
        job == cy.batch[cy.i]
    IN  /\ cy.pc = "inc"
        /\ CountFault(ok)
        /\ jobs' = IF ok THEN IncrementJobAttempt(jobs, job.owner, job.permlink) ELSE jobs
        /\ cycles' = [cycles EXCEPT ![c] = IF ok THEN [cy EXCEPT !.pc = "setPending"]
                                                 ELSE IdleCycle]
        /\ UNCHANGED <<videos, clock, encoders, currentEncoderIndex, isRunning, intervalId,
                       timers, uploads, wh, polls, hooks, thumb, dispatched, shutdown,
                       accepted>>

\* catch: await this.database.updateJobStatus(job.owner, job.permlink, 'pending', {lastError})
SetPending(c, ok) ==
    LET cy == cycles[c]
        job == cy.batch[cy.i]
    IN  /\ cy.pc = "setPending"
        /\ CountFault(ok)
        /\ jobs' = IF ok
                   THEN UpdateJobStatus(jobs, job.owner, job.permlink, "pending",
                                        [lastError |-> cy.err])
                   ELSE jobs
        /\ cycles' = [cycles EXCEPT ![c] =
             IF ~ok THEN IdleCycle
             ELSE IF MaxAttemptsReached(job) THEN [cy EXCEPT !.pc = "setFailed"]
             ELSE NextJob(cy)]
        /\ UNCHANGED <<videos, clock, encoders, currentEncoderIndex, isRunning, intervalId,
                       timers, uploads, wh, polls, hooks, thumb, dispatched, shutdown,
                       accepted>>

\* catch: await this.database.updateJobStatus(job.owner, job.permlink, 'failed', {lastError})
SetFailed(c, ok) ==
    LET cy == cycles[c]
        job == cy.batch[cy.i]
    IN  /\ cy.pc = "setFailed"
        /\ CountFault(ok)
        /\ jobs' = IF ok
                   THEN UpdateJobStatus(jobs, job.owner, job.permlink, "failed",
                                        [lastError |-> MaxAttemptsMessage(cy.err)])
                   ELSE jobs
        /\ cycles' = [cycles EXCEPT ![c] = IF ok THEN [cy EXCEPT !.pc = "videoFailed"]
                                                 ELSE IdleCycle]
        /\ UNCHANGED <<videos, clock, encoders, currentEncoderIndex, isRunning, intervalId,
                       timers, uploads, wh, polls, hooks, thumb, dispatched, shutdown,
                       accepted>>

\* catch: await this.database.updateVideoStatus(job.permlink, 'failed')
VideoFailed(c, ok) ==
    LET cy == cycles[c]
        job == cy.batch[cy.i]
    IN  /\ cy.pc = "videoFailed"
        /\ CountFault(ok)
        /\ videos' = IF ok THEN UpdateVideoStatus(videos, job.permlink, "failed", NoData)
                     ELSE videos
        /\ cycles' = [cycles EXCEPT ![c] = IF ok THEN NextJob(cy) ELSE IdleCycle]
        /\ UNCHANGED <<jobs, clock, encoders, currentEncoderIndex, isRunning, intervalId,
                       timers, uploads, wh, polls, hooks, thumb, dispatched, shutdown,
                       accepted>>

\* ---------------------------------------------------------------- uploads
\* generateVideoId(): an identifier no earlier upload was given
Permlinks == {PermlinkNames[n] : n \in 1..MaxVideos}
FreshPermlink == PermlinkNames[Cardinality(DOMAIN uploads) + 1]

\* onUploadCreate: await database.createVideoEntry({...status: 'uploading'...});
\* a failed insert answers 500 and no upload is created
UploadCreate(owner, frontend_app, short, ok) ==
    /\ Cardinality(DOMAIN uploads) < MaxVideos
    /\ CountFault(ok)
    /\ videos' = IF ok
                 THEN videos @@ (FreshPermlink :> NewVideo(owner, frontend_app, short))
                 ELSE videos
    /\ uploads' = IF ok
                  THEN uploads @@ (FreshPermlink :>
                           [pc |-> "uploading", owner |-> owner, input_cid |-> Null])
                  ELSE uploads
    /\ UNCHANGED <<jobs, clock, encoders, currentEncoderIndex, isRunning, intervalId, timers,
                   cycles, wh, polls, hooks, thumb, dispatched, shutdown, accepted>>

\* what one IPFS endpoint answers to add?pin=true: a Hash, a body without Hash, an error
PinError == "pin error"
PinOutcomes == InputCids \cup {Null, PinError}

\* pinFile: the local daemon first, the supernode when it fails, an error when both fail
PinFile(local, supernode) ==
    IF local # PinError THEN local
    ELSE IF supernode # PinError THEN supernode
    ELSE PinError

\* onUploadFinish: await pinFile(filePath)
UploadFinish(permlink, local, supernode) ==
    /\ permlink \in DOMAIN uploads
    /\ uploads[permlink].pc = "uploading"
    /\ uploads' = [uploads EXCEPT ![permlink] =
         IF PinFile(local, supernode) = PinError
         THEN [@ EXCEPT !.pc = "markFailed"]
         ELSE [@ EXCEPT !.pc = "markProcessing", !.input_cid = PinFile(local, supernode)]]
    /\ UNCHANGED <<videos, jobs, clock, encoders, currentEncoderIndex, isRunning, intervalId,
                   timers, cycles, wh, faults, polls, hooks, thumb, dispatched, shutdown,
                   accepted>>

\* onUploadFinish: await database.updateVideoStatus(permlink, 'processing', {input_cid, ...})
MarkProcessing(permlink, ok) ==
    /\ permlink \in DOMAIN uploads
    /\ uploads[permlink].pc = "markProcessing"
    /\ CountFault(ok)
    /\ videos' = IF ok
                 THEN UpdateVideoStatus(videos, permlink, "processing",
                          [input_cid |-> uploads[permlink].input_cid, encodingProgress |-> 0])
                 ELSE videos
    /\ uploads' = [uploads EXCEPT ![permlink].pc = IF ok THEN "createJob" ELSE "markFailed"]
    /\ UNCHANGED <<jobs, clock, encoders, currentEncoderIndex, isRunning, intervalId, timers,
                   cycles, wh, polls, hooks, thumb, dispatched, shutdown, accepted>>

\* onUploadFinish: await database.createJob({...status: 'pending', attemptCount: 0...})
CreateEncodingJob(permlink, ok) ==
    LET owner == uploads[permlink].owner
        inserted == ok /\ CanInsertJob(jobs, owner, permlink)
    IN  /\ permlink \in DOMAIN uploads
        /\ uploads[permlink].pc = "createJob"
        /\ CountFault(ok)
        /\ jobs' = IF inserted THEN CreateJob(jobs, NewJob(owner, permlink, clock)) ELSE jobs
        /\ clock' = IF inserted THEN clock + 1 ELSE clock
        /\ uploads' = [uploads EXCEPT ![permlink].pc = IF inserted THEN "done" ELSE "markFailed"]
        /\ UNCHANGED <<videos, encoders, currentEncoderIndex, isRunning, intervalId, timers,
                       cycles, wh, polls, hooks, thumb, dispatched, shutdown, accepted>>

\* mutant of MarkFailed: the write is refused, as an error, for a Video that is failed already
MarkFailedStrict(permlink, ok) ==
    LET done == ok /\ videos[permlink].status # "failed"
    IN  /\ permlink \in DOMAIN uploads
        /\ uploads[permlink].pc = "markFailed"
        /\ CountFault(ok)
        /\ videos' = IF done
                     THEN UpdateVideoStatus(videos, permlink, "failed", [encodingProgress |-> 0])
                     ELSE videos
        /\ uploads' = [uploads EXCEPT ![permlink].pc = IF done THEN "failed" ELSE "crashed"]
        /\ UNCHANGED <<jobs, clock, encoders, currentEncoderIndex, isRunning, intervalId,
                       timers, cycles, wh, polls, hooks, thumb, dispatched, shutdown,
                       accepted>>

\* onUploadFinish, catch: await database.updateVideoStatus(permlink, 'failed', {encodingProgress: 0});
\* when this write throws the error leaves the handler
MarkFailed(permlink, ok) ==
    /\ permlink \in DOMAIN uploads
    /\ uploads[permlink].pc = "markFailed"
    /\ CountFault(ok)
    /\ videos' = IF ok
                 THEN UpdateVideoStatus(videos, permlink, "failed", [encodingProgress |-> 0])
                 ELSE videos
    /\ uploads' = [uploads EXCEPT ![permlink].pc = IF ok THEN "failed" ELSE "crashed"]
    /\ UNCHANGED <<jobs, clock, encoders, currentEncoderIndex, isRunning, intervalId, timers,
                   cycles, wh, polls, hooks, thumb, dispatched, shutdown, accepted>>

\* ---------------------------------------------------------------- webhook
IdleWebhook ==
    [pc |-> "idle", owner |-> Null, permlink |-> Null, status |-> Null, manifest_cid |-> Null,
     error |-> Null, response |-> 0]

\* the request bodies tried: manifest_cid with complete, error with failed
WebhookBodies ==
    {[owner |-> o, permlink |-> p, status |-> "complete", manifest_cid |-> m, error |-> Null]
        : o \in Owners, p \in Permlinks, m \in ManifestCids \cup {Null}} \cup
    {[owner |-> o, permlink |-> p, status |-> "failed", manifest_cid |-> Null, error |-> e]
        : o \in Owners, p \in Permlinks, e \in {"out of memory", Null}} \cup
    {[owner |-> o, permlink |-> p, status |-> s, manifest_cid |-> Null, error |-> Null]
        : o \in Owners, p \in Permlinks, s \in {"progress", Null}}

\* mutant of Authorized: any key that is present is accepted
AuthorizedAnyKey(apiKey) == apiKey # Null

\* if (apiKey !== config.webhookApiKey) return 401
Authorized(apiKey) == apiKey = webhookApiKey

\* mutant of KnownStatus: every status that is not complete takes the failed branch
KnownStatusLoose(status) == status # Null

\* if (status === 'complete') ... else if (status === 'failed') ... else 400
KnownStatus(status) == status \in {"complete", "failed"}

\* mutant of ErrorOrDefault: no default
ErrorOrDefaultRaw(error) == error

\* encoderError || 'Encoding failed'
ErrorOrDefault(error) == IF error = Null THEN DefaultWebhookError ELSE error

\* mutant of VideoDataFor: the complete branch does not set encodingProgress
VideoDataForNoProgress(body) ==
    IF body.status = "complete"
    THEN [manifest_cid |-> body.manifest_cid]
    ELSE [encodingProgress |-> 0]

\* the $set of the video write of each branch
VideoDataFor(body) ==
    IF body.status = "complete"
    THEN [manifest_cid |-> body.manifest_cid, encodingProgress |-> 100]
    ELSE [encodingProgress |-> 0]

VideoStatusFor(status) == IF status = "complete" THEN "published" ELSE "failed"

\* mutant of JobDataFor: the failed branch appends the error to the one already stored
JobDataForAccumulating(w, now) ==
    IF w.status = "complete"
    THEN [webhookReceivedAt |-> now]
    ELSE [webhookReceivedAt |-> now,
          lastError |->
              IF /\ JobIds(jobs, w.owner, w.permlink) # {}
                 /\ jobs[FindJob(jobs, w.owner, w.permlink)].lastError # Null
              THEN jobs[FindJob(jobs, w.owner, w.permlink)].lastError \o "; "
                       \o ErrorOrDefault(w.error)
              ELSE ErrorOrDefault(w.error)]

\* the $set of the job write of each branch
JobDataFor(w, now) ==
    IF w.status = "complete"
    THEN [webhookReceivedAt |-> now]
    ELSE [webhookReceivedAt |-> now, lastError |-> ErrorOrDefault(w.error)]

JobStatusFor(status) == IF status = "complete" THEN "completed" ELSE "failed"

Respond(code) == [IdleWebhook EXCEPT !.response = code]

\* POST /webhook up to its first await: the key check, the status branch, and the
\* video write of the branch
WebhookReceive(apiKey, body, ok) ==
    /\ wh.pc = "idle"
    /\ hooks < MaxWebhooks
    /\ hooks' = hooks + 1
    /\ IF ~Authorized(apiKey)
       THEN /\ ok
            /\ wh' = Respond(401)
            /\ UNCHANGED <<videos, faults>>
       ELSE IF KnownStatus(body.status)
       THEN /\ CountFault(ok)
            /\ videos' = IF ok
                         THEN UpdateVideoStatus(videos, body.permlink,
                                  VideoStatusFor(body.status), VideoDataFor(body))
                         ELSE videos
            /\ wh' = IF ok THEN body @@ [pc |-> "jobWrite", response |-> 0] ELSE Respond(500)
       ELSE /\ ok
            /\ wh' = Respond(400)
            /\ UNCHANGED <<videos, faults>>
    /\ UNCHANGED <<jobs, clock, encoders, currentEncoderIndex, isRunning, intervalId, timers,
                   cycles, uploads, polls, thumb, dispatched, shutdown, accepted>>

\* POST /webhook: await database.updateJobStatus(owner, permlink, ...), then the response
WebhookJobWrite(ok) ==
    /\ wh.pc = "jobWrite"
    /\ CountFault(ok)
    /\ jobs' = IF ok
               THEN UpdateJobStatus(jobs, wh.owner, wh.permlink, JobStatusFor(wh.status),
                                    JobDataFor(wh, clock))
               ELSE jobs
    /\ wh' = Respond(IF ok THEN 200 ELSE 500)
    /\ UNCHANGED <<videos, clock, encoders, currentEncoderIndex, isRunning, intervalId, timers,
                   cycles, uploads, polls, hooks, thumb, dispatched, shutdown, accepted>>

\* -------------------------------------------------------------- thumbnail
IdleThumbnail ==
    [pc |-> "idle", permlink |-> Null, status |-> Null, thumbnail_url |-> Null,
     response |-> 0, calls |-> 0]

\* the thumbnail_url values of a request body
ThumbnailUrls == {"https://img/t1.jpg", Null}

ThumbnailRespond(code) == [IdleThumbnail EXCEPT !.response = code, !.calls = thumb.calls]

\* POST /video/:permlink/thumbnail behind requireApiKey: the thumbnail_url check and
\* await database.getVideo(permlink)
ThumbnailRequest(permlink, thumbnail_url, ok) ==
    /\ thumb.pc = "idle"
    /\ thumb.calls < MaxThumbnails
    /\ IF thumbnail_url = Null
       THEN /\ ok
            /\ thumb' = [ThumbnailRespond(400) EXCEPT !.calls = @ + 1]
            /\ UNCHANGED faults
       ELSE /\ CountFault(ok)
            /\ thumb' = [(IF ~ok THEN ThumbnailRespond(500)
                          ELSE IF permlink \notin DOMAIN videos THEN ThumbnailRespond(404)
                          ELSE [pc |-> "write", permlink |-> permlink,
                                status |-> videos[permlink].status,
                                thumbnail_url |-> thumbnail_url, response |-> 0,
                                calls |-> thumb.calls])
                         EXCEPT !.calls = @ + 1]
    /\ UNCHANGED <<videos, jobs, clock, encoders, currentEncoderIndex, isRunning, intervalId,
                   timers, cycles, uploads, wh, polls, hooks, dispatched, shutdown, accepted>>

\* await database.updateVideoStatus(permlink, video.status, {thumbnail_url}), then the response
ThumbnailWrite(ok) ==
    /\ thumb.pc = "write"
    /\ CountFault(ok)
    /\ videos' = IF ok
                 THEN UpdateVideoStatus(videos, thumb.permlink, thumb.status,
                                        [thumbnail_url |-> thumb.thumbnail_url])
                 ELSE videos
    /\ thumb' = ThumbnailRespond(IF ok THEN 200 ELSE 500)
    /\ UNCHANGED <<jobs, clock, encoders, currentEncoderIndex, isRunning, intervalId, timers,
                   cycles, uploads, wh, polls, hooks, dispatched, shutdown, accepted>>

\* ------------------------------------------------------------ the system
NoRecords == [k \in {} |-> Null]

\* the process after construction: empty collections, a parsed configuration,
\* a dispatcher that has not been started
Init ==
    /\ videos = NoRecords
    /\ jobs = NoRecords
    /\ clock = 1
    /\ encoders \in Configs(MaxEncoders)
    /\ currentEncoderIndex = 0
    /\ isRunning = FALSE
    /\ intervalId = FALSE
    /\ cycles = [c \in 1..MaxCycles |-> IdleCycle]
    /\ uploads = NoRecords
    /\ wh = IdleWebhook
    /\ faults = 0
    /\ polls = 0
    /\ hooks = 0
    /\ thumb = IdleThumbnail
    /\ dispatched = NoRecords
    /\ accepted = {}
    /\ timers = 0
    /\ shutdown = "running"

DispatcherStep(c, ok) ==
    \/ FetchJobs(c, ok)
    \/ LoadAndSelect(c, ok)
    \/ SetEncoding(c, ok)
    \/ IncAttempt(c, ok)
    \/ SetPending(c, ok)
    \/ SetFailed(c, ok)
    \/ VideoFailed(c, ok)

UploadStep(p, ok) ==
    \/ MarkProcessing(p, ok)
    \/ CreateEncodingJob(p, ok)
    \/ MarkFailed(p, ok)

Next ==
    \/ Start(MaxPolls)
    \/ Tick(MaxPolls)
    \/ \E c \in 1..MaxCycles, ok \in StoreOutcomes : DispatcherStep(c, ok)
    \/ \E c \in 1..MaxCycles, outcome \in EncoderOutcomes : EncoderResponds(c, outcome)
    \/ \E owner \in UploadOwners, app \in FrontendApps, short \in ShortFlags,
          ok \in StoreOutcomes : UploadCreate(owner, app, short, ok)
    \/ \E p \in Permlinks, local \in PinOutcomes, supernode \in PinOutcomes :
          UploadFinish(p, local, supernode)
    \/ \E p \in Permlinks, ok \in StoreOutcomes : UploadStep(p, ok)
    \/ \E apiKey \in ApiKeyHeaders, body \in WebhookBodies, ok \in StoreOutcomes :
          WebhookReceive(apiKey, body, ok)
    \/ \E ok \in StoreOutcomes : WebhookJobWrite(ok)

Spec == Init /\ [][Next]_vars

\* ------------------------------------------------- the system, store answering
\* Every handler of the service, thumbnail requests included, with a store whose calls
\* all return and webhook callers that hold the secret.
SucceedingDispatcherStep(c) ==
    \/ FetchJobs(c, TRUE)
    \/ LoadAndSelect(c, TRUE)
    \/ SetEncoding(c, TRUE)
    \/ IncAttempt(c, TRUE)
    \/ SetPending(c, TRUE)
    \/ SetFailed(c, TRUE)
    \/ VideoFailed(c, TRUE)

SucceedingUploadStep(p) ==
    \/ MarkProcessing(p, TRUE)
    \/ CreateEncodingJob(p, TRUE)
    \/ MarkFailed(p, TRUE)

NextLifecycle ==
    \/ Start(MaxLifecyclePolls)
    \/ Tick(MaxLifecyclePolls)
    \/ \E c \in 1..MaxCycles : SucceedingDispatcherStep(c)
    \/ \E c \in 1..MaxCycles, outcome \in EncoderOutcomes : EncoderResponds(c, outcome)
    \/ \E owner \in UploadOwners, app \in FrontendApps, short \in ShortFlags :
          UploadCreate(owner, app, short, TRUE)
    \/ \E p \in Permlinks, local \in PinOutcomes, supernode \in PinOutcomes :
          UploadFinish(p, local, supernode)
    \/ \E p \in Permlinks : SucceedingUploadStep(p)
    \/ \E body \in WebhookBodies : WebhookReceive(webhookApiKey, body, TRUE)
    \/ WebhookJobWrite(TRUE)
    \/ \E p \in Permlinks, url \in ThumbnailUrls : ThumbnailRequest(p, url, TRUE)
    \/ ThumbnailWrite(TRUE)

SpecLifecycle == Init /\ [][NextLifecycle]_vars

\* ---------------------------------------------------------- uploads only
\* Uploads with every owner, frontend_app and short flag; no dispatcher, no webhook.
AllFrontendApps == {"snapie", "unknown"}

NextUploads ==
    \/ \E owner \in Owners, app \in AllFrontendApps, short \in BOOLEAN, ok \in StoreOutcomes :
          UploadCreate(owner, app, short, ok)
    \/ \E p \in Permlinks, local \in PinOutcomes, supernode \in PinOutcomes :
          UploadFinish(p, local, supernode)
    \/ \E p \in Permlinks, ok \in StoreOutcomes : UploadStep(p, ok)

SpecUploads == Init /\ [][NextUploads]_vars

\* ------------------------------------------------------- the job store alone
\* createJob and updateJobStatus of Database called in any order with any owner and permlink, from an
\* empty collection; an insert the unique index rejects is a store call that failed.
StorePermlinks == {PermlinkNames[n] : n \in 1..2}
StoreStatuses == {"encoding", "failed"}

StoreCreateJob(owner, permlink) ==
    LET inserted == CanInsertJob(jobs, owner, permlink)
    IN  /\ Cardinality(DOMAIN jobs) < MaxJobDocs
        /\ inserted \/ faults < MaxStoreFaults
        /\ jobs' = IF inserted THEN CreateJob(jobs, NewJob(owner, permlink, clock)) ELSE jobs
        /\ clock' = IF inserted THEN clock + 1 ELSE clock
        /\ CountFault(inserted)
        /\ UNCHANGED <<videos, encoders, currentEncoderIndex, isRunning, intervalId, timers,
                       cycles, uploads, wh, polls, hooks, thumb, dispatched, shutdown,
                       accepted>>

StoreUpdateJobStatus(owner, permlink, status) ==
    /\ jobs' = UpdateJobStatus(jobs, owner, permlink, status, NoData)
    /\ UNCHANGED <<videos, clock, encoders, currentEncoderIndex, isRunning, intervalId, timers,
                   cycles, uploads, wh, faults, polls, hooks, thumb, dispatched, shutdown,
                   accepted>>

NextJobStore ==
    \/ \E owner \in Owners, p \in StorePermlinks : StoreCreateJob(owner, p)
    \/ \E owner \in Owners, p \in StorePermlinks, status \in StoreStatuses :
          StoreUpdateJobStatus(owner, p, status)

SpecJobStore == Init /\ [][NextJobStore]_vars

\* ------------------------------------------------------- backlog scenarios
\* The state in which n uploads have finished (onUploadCreate, then onUploadFinish with
\* the pin answering cidOf[permlink]) before the dispatcher is started.
BacklogPermlinks(n) == {PermlinkNames[i] : i \in 1..n}

\* slots: the poll cycles that can be in flight at the same time
BacklogSlots(n, cidOf, config, slots) ==
    /\ videos = [p \in BacklogPermlinks(n) |->
                   UpdateVideoStatus((p :> NewVideo("alice", "snapie", FALSE)), p, "processing",
                                     [input_cid |-> cidOf[p], encodingProgress |-> 0])[p]]
    /\ jobs = [id \in 1..n |-> NewJob("alice", PermlinkNames[id], id)]
    /\ clock = n + 1
    /\ encoders = config
    /\ currentEncoderIndex = 0
    /\ isRunning = FALSE
    /\ intervalId = FALSE
    /\ cycles = [c \in 1..slots |-> IdleCycle]
    /\ uploads = [p \in BacklogPermlinks(n) |->
                   [pc |-> "done", owner |-> "alice", input_cid |-> cidOf[p]]]
    /\ wh = IdleWebhook
    /\ faults = 0
    /\ polls = 0
    /\ hooks = 0
    /\ thumb = IdleThumbnail
    /\ dispatched = NoRecords
    /\ accepted = {}
    /\ timers = 0
    /\ shutdown = "running"

Backlog(n, cidOf, config) == BacklogSlots(n, cidOf, config, MaxCycles)

NoCycleInFlight == \A c \in DOMAIN cycles : cycles[c].pc = "idle"

\* a timer tick that finds the previous cycle finished
SequentialTick(limit) == NoCycleInFlight /\ Tick(limit)

\* Retry scenario: a backlog of jobs, any configuration, every failure of a dispatch.
InitDispatch ==
    \E n \in 1..MaxRetryJobs, config \in Configs(MaxEncoders) :
        \E cidOf \in [BacklogPermlinks(n) -> InputCids \cup {Null}] : Backlog(n, cidOf, config)

NextDispatch ==
    \/ Start(MaxRetryPolls)
    \/ Tick(MaxRetryPolls)
    \/ \E c \in 1..MaxCycles, ok \in StoreOutcomes : DispatcherStep(c, ok)
    \/ \E c \in 1..MaxCycles, outcome \in EncoderOutcomes : EncoderResponds(c, outcome)

SpecDispatch == InitDispatch /\ [][NextDispatch]_vars

\* Scenario B: no encoder is enabled, the store answers, polls do not overlap.
InitNoWorkers ==
    \E n \in 1..MaxBacklog, config \in {cf \in Configs(MaxEncoders) : EnabledEncoders(cf) = <<>>} :
        \E cidOf \in [BacklogPermlinks(n) -> InputCids] : Backlog(n, cidOf, config)

FailingStep(c) ==
    \/ FetchJobs(c, TRUE)
    \/ LoadAndSelect(c, TRUE)
    \/ IncAttempt(c, TRUE)
    \/ SetPending(c, TRUE)
    \/ SetFailed(c, TRUE)
    \/ VideoFailed(c, TRUE)

NextNoWorkers ==
    \/ Start(MaxRetryPolls)
    \/ SequentialTick(MaxRetryPolls)
    \/ \E c \in 1..MaxCycles : FailingStep(c)

SpecNoWorkers == InitNoWorkers /\ [][NextNoWorkers]_vars

\* Rotation scenario: at least one encoder is enabled, every dispatch succeeds, polls
\* do not overlap.
InitRoundRobin ==
    \E n \in 1..MaxBacklog, config \in {cf \in Configs(MaxRotation) : EnabledEncoders(cf) # <<>>} :
        \E cidOf \in [BacklogPermlinks(n) -> InputCids] : Backlog(n, cidOf, config)

SucceedingStep(c) ==
    \/ FetchJobs(c, TRUE)
    \/ LoadAndSelect(c, TRUE)
    \/ EncoderResponds(c, "ok")
    \/ SetEncoding(c, TRUE)

NextRoundRobin ==
    \/ Start(MaxRetryPolls)
    \/ SequentialTick(MaxRetryPolls)
    \/ \E c \in 1..MaxCycles : SucceedingStep(c)

SpecRoundRobin == InitRoundRobin /\ [][NextRoundRobin]_vars

\* Retry rotation scenario: at least two encoders are enabled, the store answers, the
\* encoder answers anything, polls do not overlap.
InitRetryRotation ==
    \E n \in 1..MaxRetryJobs,
       config \in {cf \in Configs(MaxRotation) : Len(EnabledEncoders(cf)) >= 2} :
        \E cidOf \in [BacklogPermlinks(n) -> InputCids] : Backlog(n, cidOf, config)

NextRetryRotation ==
    \/ Start(MaxRetryPolls)
    \/ SequentialTick(MaxRetryPolls)
    \/ \E c \in 1..MaxCycles : SucceedingDispatcherStep(c)
    \/ \E c \in 1..MaxCycles, outcome \in EncoderOutcomes : EncoderResponds(c, outcome)

SpecRetryRotation == InitRetryRotation /\ [][NextRetryRotation]_vars

\* Reconfiguration scenario: config.encoders is replaced, entries enabled or disabled,
\* while the dispatcher runs; the store answers, polls do not overlap.
Reconfigure(es) ==
    /\ encoders' = es
    /\ encoders' # encoders
    /\ UNCHANGED <<videos, jobs, clock, currentEncoderIndex, isRunning, intervalId, timers,
                   cycles, uploads, wh, faults, polls, hooks, thumb, dispatched, shutdown,
                   accepted>>

InitReconfigure ==
    \E n \in 1..MaxRetryJobs, config \in EnvEncoders(MaxRotation) :
        \E cidOf \in [BacklogPermlinks(n) -> InputCids] : Backlog(n, cidOf, config)

NextReconfigure ==
    \/ Start(MaxRetryPolls)
    \/ SequentialTick(MaxRetryPolls)
    \/ \E c \in 1..MaxCycles : SucceedingDispatcherStep(c)
    \/ \E c \in 1..MaxCycles, outcome \in {"ok", "non2xx"} : EncoderResponds(c, outcome)
    \/ \E es \in EnvEncoders(MaxRotation) : Reconfigure(es)

SpecReconfigure == InitReconfigure /\ [][NextReconfigure]_vars

\* Start and stop scenario: start() and stop() are called in any order on a dispatcher
\* with a backlog; the store answers.
InitStartStop ==
    \E n \in 1..MaxRetryJobs, config \in Configs(MaxEncoders) :
        \E cidOf \in [BacklogPermlinks(n) -> InputCids] : Backlog(n, cidOf, config)

NextStartStop ==
    \/ Start(MaxRetryPolls)
    \/ Stop
    \/ Tick(MaxRetryPolls)
    \/ \E c \in 1..MaxCycles : SucceedingDispatcherStep(c)
    \/ \E c \in 1..MaxCycles, outcome \in {"ok", "non2xx"} : EncoderResponds(c, outcome)

SpecStartStop == InitStartStop /\ [][NextStartStop]_vars

\* Shutdown scenario: SIGTERM or SIGINT arrives while the dispatcher and the webhook
\* handler work on a backlog. Until the signal the store answers; a store call made
\* after database.close() was called returns or throws.
\* process.on('SIGTERM' | 'SIGINT'): dispatcher.stop(), then database.close() is called
Shutdown ==
    /\ shutdown = "running"
    /\ shutdown' = "closing"
    /\ timers' = IF intervalId THEN timers - 1 ELSE timers
    /\ intervalId' = FALSE
    /\ isRunning' = IF intervalId THEN FALSE ELSE isRunning
    /\ UNCHANGED <<videos, jobs, clock, encoders, currentEncoderIndex, cycles, uploads, wh,
                   faults, polls, hooks, thumb, dispatched, accepted>>

\* await database.close() returns: process.exit(0)
Exit ==
    /\ shutdown = "closing"
    /\ shutdown' = "exited"
    /\ UNCHANGED <<videos, jobs, clock, encoders, currentEncoderIndex, isRunning, intervalId,
                   timers, cycles, uploads, wh, faults, polls, hooks, thumb, dispatched,
                   accepted>>

InitShutdown ==
    \E n \in 1..MaxRetryJobs, config \in Configs(MaxEncoders) :
        \E cidOf \in [BacklogPermlinks(n) -> InputCids] : Backlog(n, cidOf, config)

\* the handlers while the process runs
ServingStep ==
    \/ Start(MaxPolls)
    \/ Tick(MaxPolls)
    \/ \E c \in 1..MaxCycles : SucceedingDispatcherStep(c)
    \/ \E c \in 1..MaxCycles, outcome \in {"ok", "non2xx"} : EncoderResponds(c, outcome)
    \/ \E body \in WebhookBodies : WebhookReceive(webhookApiKey, body, TRUE)
    \/ WebhookJobWrite(TRUE)

\* the continuations of the operations in flight while close() is awaited
ClosingStep ==
    \/ \E c \in 1..MaxCycles, ok \in BOOLEAN : DispatcherStep(c, ok)
    \/ \E c \in 1..MaxCycles, outcome \in {"ok", "non2xx"} : EncoderResponds(c, outcome)
    \/ \E ok \in BOOLEAN : WebhookJobWrite(ok)

NextShutdown ==
    \/ shutdown = "running" /\ ServingStep
    \/ Shutdown
    \/ shutdown = "closing" /\ ClosingStep
    \/ Exit

SpecShutdown == InitShutdown /\ [][NextShutdown]_vars

\* Fair polling scenario: a backlog of up to MaxBacklog jobs, the store answers, the
\* encoder accepts or refuses each request, and the dispatcher is started, its timer
\* keeps firing and every call returns (weak fairness). Ticks are followed while a job
\* is pending; the jobs of a backlog need at most FairPolls cycles between them, one per
\* failure of a job that fails four times.
FairPolls == (MaxAttempts + 1) * MaxBacklog

InitFairPolling ==
    \E n \in 1..MaxBacklog, config \in Configs(MaxEncoders) :
        \E cidOf \in [BacklogPermlinks(n) -> InputCids] : Backlog(n, cidOf, config)

NextFairPolling ==
    \/ Start(FairPolls)
    \/ PendingKeys(jobs) # {} /\ SequentialTick(FairPolls)
    \/ \E c \in 1..MaxCycles : SucceedingDispatcherStep(c)
    \/ \E c \in 1..MaxCycles, outcome \in {"ok", "non2xx"} : EncoderResponds(c, outcome)

SpecFairPolling == InitFairPolling /\ [][NextFairPolling]_vars /\ WF_vars(NextFairPolling)

\* Overlap scenario: the timer fires while earlier poll cycles are still running, on a
\* backlog with any configuration; store calls return or throw, the encoder answers
\* anything.
InitOverlap ==
    \E n \in 1..MaxRetryJobs, config \in Configs(MaxRotation) :
        \E cidOf \in [BacklogPermlinks(n) -> InputCids] :
            BacklogSlots(n, cidOf, config, MaxOverlap)

NextOverlap ==
    \/ Start(MaxPolls)
    \/ Tick(MaxPolls)
    \/ \E c \in 1..MaxOverlap, ok \in StoreOutcomes : DispatcherStep(c, ok)
    \/ \E c \in 1..MaxOverlap, outcome \in EncoderOutcomes : EncoderResponds(c, outcome)

SpecOverlap == InitOverlap /\ [][NextOverlap]_vars

\* ================================================================ claims
\* position of a job in creation order, 0 for the oldest
Rank(k) == Cardinality({o \in DOMAIN jobs : jobs[o].createdAt < jobs[k].createdAt})

C3_RoundRobin ==
    LET N == Len(encoders)
        InCall == {c \in 1..MaxCycles : cycles[c].pc \in {"call", "setEncoding"}}
        Encoding == {k \in DOMAIN jobs : jobs[k].status = "encoding"}
    IN  /\ \A k \in Encoding : jobs[k].assignedWorker = encoders[(Rank(k) % N) + 1].name
        /\ \A c \in InCall :
              cycles[c].enc = encoders[(Cardinality(Encoding) % N) + 1].name
        /\ currentEncoderIndex = Cardinality(Encoding) + Cardinality(InCall)

C3_Witness ==
    /\ Len(encoders) = 3
    /\ \E k \in DOMAIN jobs :
          /\ Rank(k) = 3
          /\ jobs[k].status = "encoding"
          /\ jobs[k].assignedWorker = encoders[1].name
    /\ \E k \in DOMAIN jobs : Rank(k) = 2 /\ jobs[k].assignedWorker = encoders[3].name

C5_UnauthorizedWebhookRejected ==
    [][hooks' # hooks =>
       \A apiKey \in ApiKeyHeaders \ {webhookApiKey}, body \in WebhookBodies, ok \in BOOLEAN :
         WebhookReceive(apiKey, body, ok) =>
            /\ wh'.response = 401
            /\ wh'.pc = "idle"
            /\ videos' = videos
            /\ jobs' = jobs
      ]_vars

C5_Witness ==
    /\ wh.response = 401
    /\ \E k \in DOMAIN jobs : jobs[k].status = "encoding" /\ videos[jobs[k].permlink].status = "processing"

\* C6: an authorized webhook with status complete writes status published,
\* encodingProgress 100 and the reported manifest_cid to the Video, and then status
\* completed and webhookReceivedAt to the EncodingJob, and answers 200.
C6_CompleteWebhook ==
    [][/\ hooks' # hooks => \A body \in WebhookBodies :
            (body.status = "complete" /\ body.permlink \in DOMAIN videos
                /\ WebhookReceive(webhookApiKey, body, TRUE)) =>
               /\ videos'[body.permlink].status = "published"
               /\ videos'[body.permlink].encodingProgress = 100
               /\ videos'[body.permlink].manifest_cid = body.manifest_cid
               /\ wh'.pc = "jobWrite"
       /\ (wh.pc = "jobWrite" /\ wh.status = "complete" /\ WebhookJobWrite(TRUE)
              /\ JobIds(jobs, wh.owner, wh.permlink) # {}) =>
               /\ \A id \in JobIds(jobs', wh.owner, wh.permlink) :
                     /\ jobs'[id].status = "completed"
                     /\ jobs'[id].webhookReceivedAt # NoDate
               /\ wh'.response = 200
      ]_vars

C6_Witness ==
    /\ wh.response = 200
    /\ \E k \in DOMAIN jobs :
          /\ jobs[k].status = "completed"
          /\ jobs[k].webhookReceivedAt # NoDate
          /\ videos[jobs[k].permlink].status = "published"
          /\ videos[jobs[k].permlink].encodingProgress = 100
          /\ videos[jobs[k].permlink].manifest_cid \in ManifestCids

\* C7: an authorized webhook with status failed writes status failed and
\* encodingProgress 0 to the Video, and then status failed, webhookReceivedAt and
\* lastError (the reported error, or "Encoding failed" when none is reported) to the
\* EncodingJob, and answers 200.
C7_FailedWebhook ==
    [][/\ hooks' # hooks => \A body \in WebhookBodies :
            (body.status = "failed" /\ body.permlink \in DOMAIN videos
                /\ WebhookReceive(webhookApiKey, body, TRUE)) =>
               /\ videos'[body.permlink].status = "failed"
               /\ videos'[body.permlink].encodingProgress = 0
               /\ wh'.pc = "jobWrite"
       /\ (wh.pc = "jobWrite" /\ wh.status = "failed" /\ WebhookJobWrite(TRUE)
              /\ JobIds(jobs, wh.owner, wh.permlink) # {}) =>
               /\ \A id \in JobIds(jobs', wh.owner, wh.permlink) :
                     /\ jobs'[id].status = "failed"
                     /\ jobs'[id].webhookReceivedAt # NoDate
                     /\ jobs'[id].lastError =
                           (IF wh.error = Null THEN "Encoding failed" ELSE wh.error)
               /\ wh'.response = 200
      ]_vars

C7_Witness ==
    /\ wh.response = 200
    /\ \E k \in DOMAIN jobs :
          /\ jobs[k].status = "failed"
          /\ jobs[k].webhookReceivedAt # NoDate
          /\ jobs[k].lastError = "Encoding failed"
          /\ videos[jobs[k].permlink].status = "failed"
          /\ videos[jobs[k].permlink].encodingProgress = 0

\* C8: an authorized webhook whose status is neither complete nor failed (or is
\* missing) is answered 400 and changes no Video and no EncodingJob.
C8_UnknownStatusRejected ==
    [][hooks' # hooks =>
       \A body \in WebhookBodies, ok \in BOOLEAN :
         (body.status \notin {"complete", "failed"}
             /\ WebhookReceive(webhookApiKey, body, ok)) =>
            /\ wh'.response = 400
            /\ wh'.pc = "idle"
            /\ videos' = videos
            /\ jobs' = jobs
      ]_vars

C8_Witness ==
    /\ wh.response = 400
    /\ \E k \in DOMAIN jobs : jobs[k].status = "encoding" /\ videos[jobs[k].permlink].status = "processing"

\* C9: when the pin answers content identifier c, onUploadFinish writes status
\* processing, input_cid c and encodingProgress 0 to the Video while no job for the
\* upload exists yet, and then inserts exactly one EncodingJob for (owner, permlink):
\* pending, attemptCount 0, no worker, no encoder job id, no lastError.  No other step
\* inserts a job.
C9_UploadFinishCreatesJob ==
    [][\A p \in DOMAIN uploads :
         LET u == uploads[p]
             new == DOMAIN jobs' \ DOMAIN jobs
         IN  /\ \A local \in PinOutcomes, supernode \in PinOutcomes :
                  (local # PinError /\ UploadFinish(p, local, supernode)) =>
                      (uploads'[p].input_cid = local /\ uploads'[p].pc = "markProcessing")
             /\ (u.pc = "markProcessing" /\ uploads'[p].pc = "createJob") =>
                   /\ videos'[p].status = "processing"
                   /\ videos'[p].input_cid = u.input_cid
                   /\ videos'[p].encodingProgress = 0
                   /\ JobIds(jobs', u.owner, p) = {}
             /\ (u.pc = "createJob" /\ uploads'[p].pc = "done") =>
                   /\ Cardinality(new) = 1
                   /\ JobIds(jobs, u.owner, p) = {}
                   /\ JobIds(jobs', u.owner, p) = new
                   /\ \A id \in DOMAIN jobs : jobs'[id] = jobs[id]
                   /\ \A id \in new :
                         /\ jobs'[id].status = "pending"
                         /\ jobs'[id].attemptCount = 0
                         /\ jobs'[id].assignedWorker = Null
                         /\ jobs'[id].encoderJobId = Null
                         /\ jobs'[id].lastError = Null
             /\ DOMAIN jobs' # DOMAIN jobs => \E q \in DOMAIN uploads : uploads[q].pc = "createJob"
      ]_vars

C9_Witness ==
    \E p \in DOMAIN uploads :
        /\ uploads[p].pc = "done"
        /\ videos[p].status = "processing"
        /\ videos[p].input_cid = "Qm123"
        /\ videos[p].encodingProgress = 0
        /\ \E id \in JobIds(jobs, uploads[p].owner, p) :
              jobs[id].status = "pending" /\ jobs[id].attemptCount = 0

\* C10 as stated: whenever upload-completion handling fails, the Video ends failed.
C10_FailureAlwaysMarksVideoFailed ==
    [][\A p \in DOMAIN uploads :
         (uploads[p].pc = "markFailed" /\ uploads'[p].pc # "markFailed") =>
             videos'[p].status = "failed"
      ]_vars

\* C10 amended: when upload-completion handling fails (the pin fails on both endpoints,
\* the Video update fails or the job insert fails), the handler writes status failed and
\* encodingProgress 0 to the Video, and the Video is failed when that write returns; when
\* that write itself fails the Video is left as it was.  In every failure case no
\* EncodingJob has been created for the upload.
C10_FailureMarksVideoFailedWhenWritten ==
    [][\A p \in DOMAIN uploads :
         LET u == uploads[p]
         IN  /\ \A local \in PinOutcomes, supernode \in PinOutcomes :
                  (local = PinError /\ supernode = PinError /\ UploadFinish(p, local, supernode))
                      => uploads'[p].pc = "markFailed"
             /\ (u.pc \in {"markProcessing", "createJob"} /\ uploads'[p].pc # u.pc
                    /\ faults' # faults) => uploads'[p].pc = "markFailed"
             /\ (u.pc = "markFailed" /\ uploads'[p].pc = "failed") =>
                   /\ videos'[p].status = "failed"
                   /\ videos'[p].encodingProgress = 0
             /\ (u.pc = "markFailed" /\ uploads'[p].pc = "crashed") => videos' = videos
             /\ (u.pc = "markFailed" /\ uploads'[p].pc # u.pc) =>
                   uploads'[p].pc \in {"failed", "crashed"}
             /\ uploads'[p].pc \in {"markFailed", "failed", "crashed"} =>
                   JobIds(jobs', u.owner, p) = {}
      ]_vars

C10_Witness ==
    \E p \in DOMAIN uploads :
        /\ uploads[p].pc = "failed"
        /\ videos[p].status = "failed"
        /\ videos[p].input_cid = "Qm123"
        /\ JobIds(jobs, uploads[p].owner, p) = {}

\* C11: for every owner, frontend_app and short flag, right after onUploadCreate has
\* inserted the entry, the Video read back under the new permlink has status uploading,
\* encodingProgress 0, input_cid null and manifest_cid null (and carries the inputs).
C11_BeginUploadYieldsUploading ==
    [][\A owner \in Owners, app \in AllFrontendApps, short \in BOOLEAN :
         UploadCreate(owner, app, short, TRUE) =>
            /\ FreshPermlink \notin DOMAIN videos
            /\ FreshPermlink \in DOMAIN videos'
            /\ videos'[FreshPermlink].status = "uploading"
            /\ videos'[FreshPermlink].encodingProgress = 0
            /\ videos'[FreshPermlink].input_cid = Null
            /\ videos'[FreshPermlink].manifest_cid = Null
            /\ videos'[FreshPermlink].owner = owner
            /\ videos'[FreshPermlink].frontend_app = app
            /\ videos'[FreshPermlink].short = short
      ]_vars

C11_Witness ==
    \E p \in DOMAIN uploads :
        /\ uploads[p].pc = "uploading"
        /\ videos[p].owner = "bob"
        /\ videos[p].frontend_app = "unknown"
        /\ videos[p].short
        /\ videos[p].status = "uploading"
        /\ videos[p].input_cid = Null

\* C12: the markProcessing write of onUploadFinish takes effect only on a Video that
\* exists and is uploading: for a permlink without Video the handler fails, and a Video
\* in any other status keeps its status.
C12_MarkProcessingRequiresUploading ==
    [][\A p \in DOMAIN uploads :
         (uploads[p].pc = "markProcessing" /\ uploads'[p].pc # "markProcessing") =>
            /\ p \notin DOMAIN videos => uploads'[p].pc = "markFailed"
            /\ (p \in DOMAIN videos /\ videos[p].status # "uploading") =>
                  videos'[p].status = videos[p].status
      ]_vars

C14_ThumbnailLeavesStatus ==
    [][(thumb.pc = "write" /\ thumb' # thumb) =>
          videos'[thumb.permlink].status = videos[thumb.permlink].status
      ]_vars

\* C15: the job collection never holds two documents with the same (owner, permlink):
\* a createJob for a pair that has a document is rejected and leaves the collection,
\* the existing document included, as it was.
C15_OneJobPerPair ==
    [][/\ \A a \in DOMAIN jobs', b \in DOMAIN jobs' :
            (jobs'[a].owner = jobs'[b].owner /\ jobs'[a].permlink = jobs'[b].permlink)
               => a = b
       /\ \A owner \in Owners, p \in StorePermlinks :
            ((\E id \in DOMAIN jobs : jobs[id].owner = owner /\ jobs[id].permlink = p)
                /\ StoreCreateJob(owner, p)) =>
               (jobs' = jobs /\ faults' = faults + 1)
      ]_vars

\* a createJob was rejected while the pair's job, already past pending, is still there
C15_Witness ==
    /\ faults = 1
    /\ Cardinality(DOMAIN jobs) = 3
    /\ \E id \in DOMAIN jobs : jobs[id].status = "encoding"

\* C16: once three dispatch attempts of a job have failed the job is failed, and no
\* fourth attempt is counted.
C16_FailedAfterThreeAttempts ==
    /\ \A id \in DOMAIN jobs : jobs[id].attemptCount <= 3
    /\ NoCycleInFlight =>
          \A id \in DOMAIN jobs : jobs[id].attemptCount = 3 => jobs[id].status = "failed"

\* C17: with at least two encoders enabled, a job whose previous dispatch went to
\* encoder E and failed is sent, on its next dispatch, to the encoder that follows E in
\* the rotation.
C17_RetryUsesNextEncoder ==
    [][\A c \in 1..MaxCycles :
         LET cy == cycles[c]
             job == cy.batch[cy.i]
             key == <<job.owner, job.permlink>>
             enabled == EnabledEncoders(encoders)
             N == Len(enabled)
         IN  (cy.pc = "getVideo" /\ cycles'[c].pc = "call" /\ key \in DOMAIN dispatched
                 /\ N >= 2) =>
                \E i \in 1..N : /\ enabled[i].name = dispatched[key]
                                 /\ cycles'[c].enc = enabled[(i % N) + 1].name
      ]_vars

\* C18: every change of a Video's status follows an edge of the Video state machine:
\* uploading -> processing, processing -> published, processing -> failed,
\* uploading -> failed, published -> deleted, failed -> deleted.
C18_VideoStatusEdges ==
    [][\A p \in DOMAIN videos :
         videos'[p].status # videos[p].status =>
            <<videos[p].status, videos'[p].status>> \in
                {<<"uploading", "processing">>, <<"processing", "published">>,
                 <<"processing", "failed">>, <<"uploading", "failed">>,
                 <<"published", "deleted">>, <<"failed", "deleted">>}
      ]_vars

\* C19: every change of an EncodingJob's status follows an edge of the job state
\* machine: pending -> encoding, encoding -> completed, pending -> failed,
\* encoding -> failed; completed and failed are never left.
C19_JobStatusEdges ==
    [][\A id \in DOMAIN jobs :
         jobs'[id].status # jobs[id].status =>
            <<jobs[id].status, jobs'[id].status>> \in
                {<<"pending", "encoding">>, <<"encoding", "completed">>,
                 <<"pending", "failed">>, <<"encoding", "failed">>}
      ]_vars

\* C20: every job-status write of the dispatcher (encoding after acceptance, pending
\* after a failure, failed when the attempts are used up) is applied to a job whose
\* stored status is pending at the moment of the write.
C20_DispatcherWritesPendingJobs ==
    [][\A c \in 1..MaxCycles :
         LET cy == cycles[c]
             job == cy.batch[cy.i]
         IN  (cy.pc \in {"setEncoding", "setPending", "setFailed"} /\ cycles'[c] # cy
                 /\ faults' = faults) =>
                \A id \in JobIds(jobs, job.owner, job.permlink) : jobs[id].status = "pending"
      ]_vars

\* C21: the webhook handler only transitions encoding jobs: an authenticated webhook
\* for a pair whose job is stored as pending, completed or failed leaves the videos
\* collection (the first write of the handler) and the jobs collection (its second
\* write) as they were.
C21_WebhookOnlyTransitionsEncoding ==
    [][/\ (hooks' # hooks /\ wh'.pc = "jobWrite") =>
             \A id \in JobIds(jobs, wh'.owner, wh'.permlink) :
                 jobs[id].status # "encoding" => videos' = videos
       /\ (wh.pc = "jobWrite" /\ wh' # wh) =>
             \A id \in JobIds(jobs, wh.owner, wh.permlink) :
                 jobs[id].status # "encoding" => jobs' = jobs
      ]_vars

\* the fields of a Video and of a job that a webhook replay is compared on
VideoView(vs) ==
    [p \in DOMAIN vs |-> <<vs[p].status, vs[p].manifest_cid, vs[p].encodingProgress>>]

JobView(js) == [id \in DOMAIN js |-> <<js[id].status, js[id].lastError>>]

\* the Video, the job, is as one delivery of the final-status webhook b leaves it
VideoDelivered(v, b) ==
    IF b.status = "complete"
    THEN v.status = "published" /\ v.manifest_cid = b.manifest_cid /\ v.encodingProgress = 100
    ELSE v.status = "failed" /\ v.encodingProgress = 0

JobDelivered(job, b) ==
    IF b.status = "complete"
    THEN job.status = "completed"
    ELSE job.status = "failed"
         /\ job.lastError = (IF b.error = Null THEN DefaultWebhookError ELSE b.error)

\* C22: a replayed final-status webhook is a no-op on status, manifest_cid,
\* encodingProgress and lastError: when the Video is as one delivery of the webhook leaves
\* it, the video write of the next delivery leaves those fields of every Video unchanged,
\* and when the job is as one delivery leaves it, the job write of the next delivery
\* leaves those fields of every job unchanged.
C22_WebhookReplayIdempotent ==
    [][/\ (/\ hooks' # hooks
           /\ wh'.pc = "jobWrite"
           /\ wh'.permlink \in DOMAIN videos
           /\ VideoDelivered(videos[wh'.permlink], wh')) =>
             VideoView(videos') = VideoView(videos)
       /\ (/\ wh.pc = "jobWrite"
           /\ wh'.response = 200
           /\ JobIds(jobs, wh.owner, wh.permlink) # {}
           /\ JobDelivered(jobs[FindJob(jobs, wh.owner, wh.permlink)], wh)) =>
             JobView(jobs') = JobView(jobs)
      ]_vars

\* the second delivery of a failed webhook has written the Video, and the job carries the
\* error of the first delivery of the same body
C22_Witness ==
    /\ hooks = 2
    /\ wh.pc = "jobWrite"
    /\ wh.status = "failed"
    /\ wh.error = "out of memory"
    /\ wh.permlink \in DOMAIN videos
    /\ VideoDelivered(videos[wh.permlink], wh)
    /\ \E id \in JobIds(jobs, wh.owner, wh.permlink) :
          /\ jobs[id].status = "failed"
          /\ jobs[id].lastError = "out of memory"
          /\ jobs[id].webhookReceivedAt # NoDate

\* C23: within a poll cycle a failed dispatch, a failure of the store while that failure
\* is being recorded included, does not abort the cycle: a cycle that has fetched its
\* batch ends only after the last job of the batch has been attempted.
C23_FailureDoesNotAbortCycle ==
    [][\A c \in 1..MaxCycles :
         (cycles[c].pc \notin {"idle", "fetch"} /\ cycles'[c].pc = "idle") =>
            cycles[c].i = Len(cycles[c].batch)
      ]_vars

\* C24: a poll cycle whose fetch returned attempts exactly the min(5, number of pending
\* jobs) pending jobs that were created first, in ascending order of creation and one
\* after the other: the batch is those jobs, it does not change during the cycle, the
\* cycle moves from the i-th job to the job after it only, and it ends after the last one.
C24_CycleAttemptsOldestPending ==
    [][\A c \in 1..MaxCycles :
         LET cy == cycles[c]
             after == cycles'[c]
             pending == PendingKeys(jobs)
         IN  /\ (cy.pc = "fetch" /\ after.pc = "getVideo") =>
                   /\ Len(after.batch) = (IF Cardinality(pending) < BatchSize
                                          THEN Cardinality(pending) ELSE BatchSize)
                   /\ after.i = 1
                   /\ \A i \in 1..Len(after.batch) :
                         \E k \in pending :
                            /\ jobs[k].owner = after.batch[i].owner
                            /\ jobs[k].permlink = after.batch[i].permlink
                            /\ Cardinality({o \in pending :
                                              jobs[o].createdAt < jobs[k].createdAt}) = i - 1
             /\ (cy.pc = "fetch" /\ after.pc = "idle" /\ faults' = faults) => pending = {}
             /\ (cy.pc \notin {"idle", "fetch"} /\ after.pc # "idle") =>
                   /\ after.batch = cy.batch
                   /\ after.i \in {cy.i, cy.i + 1}
             /\ (cy.pc \notin {"idle", "fetch"} /\ after.pc = "idle") =>
                   cy.i = Len(cy.batch)
      ]_vars

C26_OneTimerAndNoCycleAfterStop ==
    [][/\ timers' <= 1
       /\ timers' > timers =>
             /\ ~isRunning
             /\ isRunning'
             /\ polls' = polls + 1
             /\ \E c \in 1..MaxCycles : cycles[c].pc = "idle" /\ cycles'[c].pc = "fetch"
       /\ polls' # polls =>
             /\ polls' = polls + 1
             /\ isRunning \/ timers' > timers
       /\ (isRunning /\ ~isRunning') => timers' = 0
      ]_vars

\* stop() has been called after two poll cycles began, the second still running
C26_Witness ==
    /\ ~isRunning
    /\ timers = 0
    /\ polls >= 2
    /\ \E c \in 1..MaxCycles : cycles[c].pc \notin {"idle", "fetch"}

\* C27: on shutdown the store connection is released only after the operations in
\* flight have finished: database.close() is called in a state in which no poll cycle
\* and no webhook handler is between two of its awaits, and once it has been called no
\* store call returns or throws any more.
C27_CloseAfterInFlightOperations ==
    [][/\ (shutdown = "running" /\ shutdown' = "closing") =>
             NoCycleInFlight /\ wh.pc = "idle"
       /\ shutdown # "running" => (videos' = videos /\ jobs' = jobs /\ faults' = faults)
      ]_vars

\* C29: no starvation. With the timer firing and every store and encoder call returning,
\* the jobs of the backlog, all created pending and more of them than a batch holds,
\* are eventually all encoding or failed (a job that has left pending does not return
\* to it here), whatever the encoder answers to the jobs created before them.
C29_EveryPendingJobIsSettled ==
    <>(\A id \in DOMAIN jobs : jobs[id].status \in {"encoding", "failed"})

\* the sixth job of a backlog is encoding after each of the five jobs created before it
\* failed four times
C29_Witness ==
    /\ Cardinality(DOMAIN jobs) > BatchSize
    /\ \A id \in 1..BatchSize : jobs[id].status = "failed" /\ jobs[id].attemptCount = 4
    /\ jobs[BatchSize + 1].status = "encoding"

\* C30: a job is created with attemptCount 0; the count changes only by the increment of
\* 1 that the failure handling of a dispatch makes for the job it failed on, so it never
\* decreases; and it never exceeds 4.
C30_AttemptCountBudget ==
    [][/\ \A id \in DOMAIN jobs' :
             /\ id \notin DOMAIN jobs => jobs'[id].attemptCount = 0
             /\ id \in DOMAIN jobs =>
                   /\ jobs'[id].attemptCount \in
                         {jobs[id].attemptCount, jobs[id].attemptCount + 1}
                   /\ jobs'[id].attemptCount # jobs[id].attemptCount =>
                         \E c \in 1..MaxCycles :
                            /\ cycles[c].pc = "inc"
                            /\ cycles'[c].pc = "setPending"
                            /\ jobs[id].owner = cycles[c].batch[cycles[c].i].owner
                            /\ jobs[id].permlink = cycles[c].batch[cycles[c].i].permlink
             /\ jobs'[id].attemptCount <= MaxAttempts + 1
       /\ \A c \in 1..MaxCycles :
             (cycles[c].pc = "inc" /\ cycles'[c].pc = "setPending") =>
                \A id \in JobIds(jobs, cycles[c].batch[cycles[c].i].owner,
                                 cycles[c].batch[cycles[c].i].permlink) :
                    jobs'[id].attemptCount = jobs[id].attemptCount + 1
      ]_vars

\* C31: the round-robin cursor advances by exactly one at each selection of an encoder
\* and changes at no other step. A selection reads the cursor and increments it in one
\* step, one cycle at a time, so with poll cycles overlapping each selection uses the
\* value the one before it left: none is used twice, none is skipped. A dispatch that
\* fails before the selection leaves the cursor as it was, and the failure of the
\* encoder call after the selection does not take the increment back.
C31_CursorAdvancesPerSelection ==
    [][LET enabledNow == SelectSeq(encoders, LAMBDA e : e.enabled)
           Selects(c) == cycles[c].pc = "getVideo" /\ cycles'[c].pc = "call"
           selecting == {c \in DOMAIN cycles : Selects(c)}
       IN  /\ currentEncoderIndex' =
                 currentEncoderIndex + (IF selecting = {} THEN 0 ELSE 1)
           /\ Cardinality(selecting) <= 1
           /\ \A c \in selecting :
                 cycles'[c].enc =
                    enabledNow[(currentEncoderIndex % Len(enabledNow)) + 1].name
      ]_vars

\* two poll cycles overlap, each waiting for the encoder it selected: the first used
\* cursor 0, the second cursor 1
C31_Witness ==
    \E c, d \in DOMAIN cycles :
        /\ c # d
        /\ cycles[c].pc = "call"
        /\ cycles[d].pc = "call"
        /\ currentEncoderIndex = 2
        /\ Len(encoders) >= 2
        /\ cycles[c].enc = encoders[1].name
        /\ cycles[d].enc = encoders[2].name

\* C32: a job is encoding only after an encoder answered with a job id: every job whose
\* status is encoding has an assignedWorker, an encoderJobId and an assignedAt.
C32_EncodingJobHasWorkerJobId ==
    \A id \in DOMAIN jobs :
        jobs[id].status = "encoding" =>
            /\ jobs[id].assignedWorker # Null
            /\ jobs[id].encoderJobId # Null
            /\ jobs[id].assignedAt # NoDate

\* C33: every job has a Video of its permlink, and that Video has an input_cid.
C33_JobHasPinnedVideo ==
    \A id \in DOMAIN jobs :
        /\ jobs[id].permlink \in DOMAIN videos
        /\ videos[jobs[id].permlink].input_cid # Null

\* C34: the encodingProgress of a Video is within 0..100 and agrees with its status: a
\* published Video has encodingProgress 100 and a manifest_cid; an uploading, processing
\* or failed Video has encodingProgress 0.
C34_ProgressAgreesWithStatus ==
    \A p \in DOMAIN videos :
        /\ videos[p].encodingProgress \in 0..100
        /\ videos[p].status = "published" =>
              videos[p].encodingProgress = 100 /\ videos[p].manifest_cid # Null
        /\ videos[p].status \in {"uploading", "processing", "failed"} =>
              videos[p].encodingProgress = 0

\* C35: a job is accepted by at most one encoder: once an encoder has answered the
\* request for a job with success, no cycle sends a request for that job again, also
\* when poll cycles overlap and when the write of status encoding fails.
C35_NoRequestAfterAcceptance ==
    [][\A c \in DOMAIN cycles :
          (cycles[c].pc = "getVideo" /\ cycles'[c].pc = "call") =>
              <<cycles[c].batch[cycles[c].i].owner,
                cycles[c].batch[cycles[c].i].permlink>> \notin accepted
      ]_vars

\* C36: whenever no poll cycle and no webhook handler is mid-execution, a job and the
\* Video of its permlink agree: the Video of a completed job is published, the Video of
\* a failed job is failed, and a published Video has a completed job of its owner and
\* permlink.
C36_JobAndVideoAgree ==
    (NoCycleInFlight /\ wh.pc = "idle") =>
        /\ \A id \in DOMAIN jobs :
              /\ jobs[id].status = "completed" =>
                    /\ jobs[id].permlink \in DOMAIN videos
                    /\ videos[jobs[id].permlink].status = "published"
              /\ jobs[id].status = "failed" =>
                    /\ jobs[id].permlink \in DOMAIN videos
                    /\ videos[jobs[id].permlink].status = "failed"
        /\ \A p \in DOMAIN videos :
              videos[p].status = "published" =>
                  \E id \in DOMAIN jobs :
                      /\ jobs[id].permlink = p
                      /\ jobs[id].owner = videos[p].owner
                      /\ jobs[id].status = "completed"

====
